---- MODULE Spec2Model ----
(***************************************************************************)
(* Model of src/musiccli.py: a Dispatcher (main) that reads operator       *)
(* input and enqueues URLs, num_workers download_worker threads that       *)
(* consume download_queue and update the ledger (active_downloads,         *)
(* completed_downloads, failed_downloads) under queue_lock, and the        *)
(* status_display thread that snapshots the ledger under the same lock.    *)
(* A thread's action runs from one blocking point (Queue.get, acquiring    *)
(* queue_lock, a yt_dlp call, Event.wait, Queue.join, Thread.join) to the  *)
(* next; the body of a `with queue_lock:` block is a step of its own, so   *)
(* a thread is visibly inside its critical section.  main returning ends   *)
(* the process: the worker and renderer threads are daemons.               *)
(* Strings are TLA+ strings; slices are SubSeq.                            *)
(***************************************************************************)
EXTENDS Integers, Sequences, FiniteSets, TLC

(* ----------------------------- bounds ---------------------------------- *)
\* number of URL entries the operator may submit in one run
MaxSubmit == 2

(* ------------------------- program constants --------------------------- *)
num_workers == 3
\* str(e)[:50] and url[:50]
ErrLen == 50
\* completed_downloads[-3:], failed_downloads[-3:]
TailLen == 3

Workers == 1..num_workers
\* owner ids of queue_lock: 0 is "not held", a worker is its index
Unlocked == 0
RendererId == num_workers + 1

(* ------------------------------ strings -------------------------------- *)
\* variant: no truncation
TakeWhole(s, n) == s

\* s[:n]
Take(s, n) == IF Len(s) <= n THEN s ELSE SubSeq(s, 1, n)

\* p in s
Contains(s, p) ==
  \E i \in 1..(Len(s) - Len(p) + 1) : SubSeq(s, i, i + Len(p) - 1) = p

UpperChars == "ABCDEFGHIJKLMNOPQRSTUVWXYZ"
LowerChars == "abcdefghijklmnopqrstuvwxyz"

LowerChar(c) ==
  IF \E i \in 1..Len(UpperChars) : SubSeq(UpperChars, i, i) = c
  THEN LET i == CHOOSE j \in 1..Len(UpperChars) : SubSeq(UpperChars, j, j) = c
       IN SubSeq(LowerChars, i, i)
  ELSE c

RECURSIVE StrLower(_)
\* s.lower()
StrLower(s) ==
  IF Len(s) = 0 THEN ""
  ELSE LowerChar(SubSeq(s, 1, 1)) \o StrLower(SubSeq(s, 2, Len(s)))

IsSpace(c) == c \in {" ", "\t", "\n", "\r"}

RECURSIVE LStrip(_)
LStrip(s) ==
  IF Len(s) > 0 /\ IsSpace(SubSeq(s, 1, 1)) THEN LStrip(SubSeq(s, 2, Len(s)))
  ELSE s

RECURSIVE RStrip(_)
RStrip(s) ==
  IF Len(s) > 0 /\ IsSpace(SubSeq(s, Len(s), Len(s)))
  THEN RStrip(SubSeq(s, 1, Len(s) - 1))
  ELSE s

\* s.strip()
Strip(s) == RStrip(LStrip(s))

\* seq[-n:]
LastN(seq, n) ==
  IF Len(seq) <= n THEN seq ELSE SubSeq(seq, Len(seq) - n + 1, Len(seq))

\* d.get(k, default)
DictGet(d, k, default) == IF k \in DOMAIN d THEN d[k] ELSE default

(* ------------------------------ inputs --------------------------------- *)
URL1 == "https://youtu.be/a"
URL2 == "https://www.youtube.com/watch?v=b"
URLs == {URL1, URL2}

\* what Prompt.ask may return
Inputs == {"q", "Q", "s", "S", "", "  ", "hello", URL1, URL2}

\* messages of the exceptions yt_dlp raises from extract_info and download
ProbeErrors ==
  {"ERROR: [youtube] Video unavailable. This video is private (login required)"}
DownloadErrors == {"network timeout"}

\* the info dict extract_info returns for a URL: with or without 'title'
InfoOf(u) == IF u = URL1 THEN [title |-> "Song A"] ELSE [id |-> "b"]

\* events yt_dlp hands to progress_hook
HookEvents == {[status |-> "downloading", _percent_str |-> " 50.0%"],
               [status |-> "finished"],
               [status |-> "error"]}

(* --------------------------- queue entries ----------------------------- *)
\* the poison pill
None == [none |-> TRUE]
\* a URL entry; id is the submission number and tells equal URLs apart
Work(i, u) == [id |-> i, url |-> u]
\* a local variable that holds nothing yet
Unset == [unset |-> TRUE]
IsWork(x) == DOMAIN x = {"id", "url"}

\* hist of an entry not submitted; result is "pending", "ok" or str(e)
NoHist == [url |-> "", result |-> "none"]

VARIABLES
  queue,          \* download_queue: FIFO of entries
  unfinished,     \* download_queue.unfinished_tasks
  active,         \* active_downloads: url -> [title, progress]
  completed,      \* completed_downloads
  failed,         \* failed_downloads
  queue_lock,     \* owner of queue_lock, or Unlocked
  stop_display,   \* the Event
  wpc,            \* download_worker: position of each worker
  wurl,           \* download_worker: the dequeued entry
  wtitle,         \* download_worker: local `title`
  werr,           \* download_worker: error_msg
  whook,          \* progress_hook: its argument d
  rpc,            \* status_display: position
  rfirst,         \* status_display: TRUE until the first table is returned
  snap,           \* create_status_table: what has been read so far
  dpc,            \* main: position
  dk,             \* main: index of the `for ... in workers` loops
  summary,        \* main: the two counts printed on quit
  submitted,      \* history: number of URL entries put
  dequeued,       \* history: entry id -> number of times a get returned it
  drained,        \* history: download_queue.join() has returned
  interrupted,    \* history: the KeyboardInterrupt handler ran
  setCount,       \* history: number of stop_display.set() calls
  inst,           \* history: the real ledger when the snapshot read qsize
  dropped,        \* history: an update for an absent entry has been dropped
  hist            \* history: entry id -> its URL and what yt_dlp did with it

vars == <<queue, unfinished, active, completed, failed, queue_lock,
          stop_display, wpc, wurl, wtitle, werr, whook, rpc, rfirst, snap,
          dpc, dk, summary, submitted, dequeued, drained, interrupted,
          setCount, inst, dropped, hist>>

queueVars == <<queue, unfinished>>
ledgerVars == <<active, completed, failed>>
workerVars == <<wpc, wurl, wtitle, werr, whook>>
rendererVars == <<rpc, rfirst, snap, inst>>
mainVars == <<dpc, dk, summary, submitted, drained, interrupted>>


(* ------------------------------ ledger --------------------------------- *)
\* {'title': 'Fetching info...', 'progress': '0%'}
EntryDefault == [title |-> "Fetching info...", progress |-> "0%"]

\* active_downloads = {}
EmptyMap == [u \in {} |-> EntryDefault]

\* active_downloads[url] = {...}: inserts, or overwrites an existing key
LedgerEnter(a, u) ==
  [x \in DOMAIN a \cup {u} |-> IF x = u THEN EntryDefault ELSE a[x]]

\* variant: the entry is never deleted
LedgerLeaveKeep(a, u) == a

\* if url in active_downloads: del active_downloads[url]
LedgerLeave(a, u) == [x \in DOMAIN a \ {u} |-> a[x]]

\* variant: no `if url in active_downloads` guard, the entry is re-created
UpdateProgressAlways(a, u, p) ==
  [x \in DOMAIN a \cup {u} |->
     IF x = u
     THEN [title |-> DictGet(DictGet(a, u, EntryDefault), "title", ""),
           progress |-> p]
     ELSE a[x]]

\* if url in active_downloads: active_downloads[url]['progress'] = p
UpdateProgress(a, u, p) ==
  IF u \in DOMAIN a THEN [a EXCEPT ![u].progress = p] ELSE a

\* if url in active_downloads: active_downloads[url]['title'] = t
UpdateTitle(a, u, t) ==
  IF u \in DOMAIN a THEN [a EXCEPT ![u].title = t] ELSE a

\* completed_downloads.append(title): not under the `if`
RecordCompleted(c, t) == Append(c, t)

\* f"{title} - {error_msg}" with title = active_downloads[url].get('title', url[:50])
FailSummary(a, u, msg) ==
  DictGet(a[u], "title", Take(u, ErrLen)) \o " - " \o msg

\* failed_downloads.append(...): inside `if url in active_downloads`
RecordFailed(f, a, u, msg) ==
  IF u \in DOMAIN a THEN Append(f, FailSummary(a, u, msg)) ELSE f

\* the table create_status_table is filling; stage counts the reads done
NoSnap ==
  [stage |-> 0, active |-> EmptyMap, q |-> 0, completed |-> <<>>,
   failed |-> <<>>]

(* ------------------------------- lock ---------------------------------- *)
\* variant: acquire never waits
LockAlwaysFree(l) == TRUE

\* queue_lock.acquire() returns only when nobody holds the lock
LockFree(l) == l = Unlocked

Acquire(t) ==
  /\ LockFree(queue_lock)
  /\ queue_lock' = t

\* variant: the lock is not released
ReleaseNever(t) == UNCHANGED queue_lock

\* leaving the `with` block; a threading.Lock has no owner check
Release(t) == queue_lock' = Unlocked

(* ------------------------------- queue --------------------------------- *)
\* variant: get leaves the item in the queue
QueueAfterGetKeep(q) == q

\* Queue.get(): the item returned, and what is left
QueueFront(q) == Head(q)
QueueAfterGet(q) == Tail(q)
\* Queue.put(item)
QueueAfterPut(q, item) == Append(q, item)
\* variant: join does not wait for the outstanding tasks
JoinNoDrain(n) == TRUE

\* Queue.join() returns when unfinished_tasks is 0
JoinReturns(n) == n = 0

Init ==
  /\ queue = <<>>
  /\ unfinished = 0
  /\ active = EmptyMap
  /\ completed = <<>>
  /\ failed = <<>>
  /\ queue_lock = Unlocked
  /\ stop_display = FALSE
  /\ wpc = [w \in Workers |-> "get"]
  /\ wurl = [w \in Workers |-> Unset]
  /\ wtitle = [w \in Workers |-> ""]
  /\ werr = [w \in Workers |-> ""]
  /\ whook = [w \in Workers |-> Unset]
  /\ rpc = "snap_acq"
  /\ rfirst = TRUE
  /\ snap = NoSnap
  /\ dpc = "idle"
  /\ dk = 0
  /\ summary = Unset
  /\ submitted = 0
  /\ dequeued = [i \in 1..MaxSubmit |-> 0]
  /\ drained = FALSE
  /\ interrupted = FALSE
  /\ setCount = 0
  /\ inst = Unset
  /\ dropped = FALSE
  /\ hist = [i \in 1..MaxSubmit |-> NoHist]

(* ------------------------------ process -------------------------------- *)
\* main has not returned; when it does the process exits and the daemon
\* threads (workers, status_display) stop where they are
Running == dpc # "terminal"

(* --------------------------- download_worker --------------------------- *)
SetW(f, w, v) == [f EXCEPT ![w] = v]

\* url = download_queue.get(); if url is None: break
WGet(w) ==
  /\ Running
  /\ wpc[w] = "get"
  /\ queue # <<>>
  /\ LET item == QueueFront(queue) IN
       /\ queue' = QueueAfterGet(queue)
       /\ wurl' = SetW(wurl, w, IF item = None THEN Unset ELSE item)
       /\ wpc' = SetW(wpc, w, IF item = None THEN "exited" ELSE "enter")
       /\ dequeued' = IF IsWork(item)
                      THEN [dequeued EXCEPT ![item.id] = @ + 1]
                      ELSE dequeued
  /\ UNCHANGED <<unfinished, ledgerVars, queue_lock, stop_display, wtitle,
                 werr, whook, rendererVars, mainVars, setCount,
                 dropped, hist>>

\* with queue_lock: (line 88)
WEnterAcq(w) ==
  /\ Running
  /\ wpc[w] = "enter"
  /\ Acquire(w)
  /\ wpc' = SetW(wpc, w, "enter_cs")
  /\ UNCHANGED <<queueVars, ledgerVars, stop_display, wurl, wtitle, werr,
                 whook, rendererVars, mainVars, dequeued, setCount,
                 dropped, hist>>

\* active_downloads[url] = {'title': 'Fetching info...', 'progress': '0%'};
\* then ydl.extract_info(url, download=False) is called
WEnter(w) ==
  /\ Running
  /\ wpc[w] = "enter_cs"
  /\ active' = LedgerEnter(active, wurl[w].url)
  /\ Release(w)
  /\ wpc' = SetW(wpc, w, "probe")
  /\ UNCHANGED <<queueVars, completed, failed, stop_display, wurl, wtitle,
                 werr, whook, rendererVars, mainVars, dequeued, setCount,
                 dropped, hist>>

\* extract_info returns; title = info.get('title', 'Unknown');
\* with queue_lock: (line 121)
WProbeOk(w) ==
  /\ Running
  /\ wpc[w] = "probe"
  /\ wtitle' = SetW(wtitle, w, DictGet(InfoOf(wurl[w].url), "title", "Unknown"))
  /\ Acquire(w)
  /\ wpc' = SetW(wpc, w, "title_cs")
  /\ UNCHANGED <<queueVars, ledgerVars, stop_display, wurl, werr, whook,
                 rendererVars, mainVars, dequeued, setCount,
                 dropped, hist>>

\* extract_info raises: except Exception as e: error_msg = str(e)[:50];
\* with queue_lock: (line 136)
WProbeErr(w) ==
  /\ Running
  /\ wpc[w] = "probe"
  /\ \E e \in ProbeErrors :
       /\ werr' = SetW(werr, w, Take(e, ErrLen))
       /\ hist' = [hist EXCEPT ![wurl[w].id].result = e]
  /\ Acquire(w)
  /\ wpc' = SetW(wpc, w, "fail_cs")
  /\ UNCHANGED <<queueVars, ledgerVars, stop_display, wurl, wtitle, whook,
                 rendererVars, mainVars, dequeued, setCount,
                 dropped>>

\* if url in active_downloads: active_downloads[url]['title'] = title;
\* then ydl.download([url]) is called
WTitle(w) ==
  /\ Running
  /\ wpc[w] = "title_cs"
  /\ active' = UpdateTitle(active, wurl[w].url, wtitle[w])
  /\ dropped' = (dropped \/ wurl[w].url \notin DOMAIN active)
  /\ Release(w)
  /\ wpc' = SetW(wpc, w, "download")
  /\ UNCHANGED <<queueVars, completed, failed, stop_display, wurl, wtitle,
                 werr, whook, rendererVars, mainVars, dequeued, setCount, hist>>

\* progress_hook(d), called from inside ydl.download: a 'downloading' or a
\* 'finished' event takes queue_lock (lines 106, 110), any other returns
WHookAcq(w) ==
  /\ Running
  /\ wpc[w] = "download"
  /\ \E d \in HookEvents :
       IF d.status \in {"downloading", "finished"}
       THEN /\ Acquire(w)
            /\ whook' = SetW(whook, w, d)
            /\ wpc' = SetW(wpc, w, "hook_cs")
       ELSE UNCHANGED <<queue_lock, whook, wpc>>
  /\ UNCHANGED <<queueVars, ledgerVars, stop_display, wurl, wtitle, werr,
                 rendererVars, mainVars, dequeued, setCount,
                 dropped, hist>>

\* the value progress_hook writes: d.get('_percent_str', '0%') or '100%'
HookPercent(d) ==
  IF d.status = "downloading" THEN DictGet(d, "_percent_str", "0%") ELSE "100%"

\* variant: progress_hook returns with queue_lock still held
WHookKeepLock(w) ==
  /\ Running
  /\ wpc[w] = "hook_cs"
  /\ active' = UpdateProgress(active, wurl[w].url, HookPercent(whook[w]))
  /\ dropped' = (dropped \/ wurl[w].url \notin DOMAIN active)
  /\ wpc' = SetW(wpc, w, "download")
  /\ whook' = SetW(whook, w, Unset)
  /\ UNCHANGED <<queueVars, completed, failed, queue_lock, stop_display,
                 wurl, wtitle, werr, rendererVars, mainVars, dequeued,
                 setCount, hist>>

\* if url in active_downloads: active_downloads[url]['progress'] = ...
WHook(w) ==
  /\ Running
  /\ wpc[w] = "hook_cs"
  /\ active' = UpdateProgress(active, wurl[w].url, HookPercent(whook[w]))
  /\ dropped' = (dropped \/ wurl[w].url \notin DOMAIN active)
  /\ Release(w)
  /\ wpc' = SetW(wpc, w, "download")
  /\ whook' = SetW(whook, w, Unset)
  /\ UNCHANGED <<queueVars, completed, failed, stop_display, wurl, wtitle,
                 werr, rendererVars, mainVars, dequeued, setCount, hist>>

\* variant: the completion block runs without taking queue_lock
WDownloadOkNoLock(w) ==
  /\ Running
  /\ wpc[w] = "download"
  /\ hist' = [hist EXCEPT ![wurl[w].id].result = "ok"]
  /\ wpc' = SetW(wpc, w, "complete_cs")
  /\ UNCHANGED <<queueVars, ledgerVars, queue_lock, stop_display, wurl,
                 wtitle, werr, whook, rendererVars, mainVars, dequeued,
                 setCount, dropped>>

\* ydl.download([url]) returns; with queue_lock: (line 129)
WDownloadOk(w) ==
  /\ Running
  /\ wpc[w] = "download"
  /\ hist' = [hist EXCEPT ![wurl[w].id].result = "ok"]
  /\ Acquire(w)
  /\ wpc' = SetW(wpc, w, "complete_cs")
  /\ UNCHANGED <<queueVars, ledgerVars, stop_display, wurl, wtitle, werr,
                 whook, rendererVars, mainVars, dequeued, setCount,
                 dropped>>

\* ydl.download([url]) raises: error_msg = str(e)[:50]; with queue_lock:
WDownloadErr(w) ==
  /\ Running
  /\ wpc[w] = "download"
  /\ \E e \in DownloadErrors :
       /\ werr' = SetW(werr, w, Take(e, ErrLen))
       /\ hist' = [hist EXCEPT ![wurl[w].id].result = e]
  /\ Acquire(w)
  /\ wpc' = SetW(wpc, w, "fail_cs")
  /\ UNCHANGED <<queueVars, ledgerVars, stop_display, wurl, wtitle, whook,
                 rendererVars, mainVars, dequeued, setCount,
                 dropped>>

\* if url in active_downloads: del ...; completed_downloads.append(title).
\* url, title and error_msg are not read again before they are reassigned
WComplete(w) ==
  /\ Running
  /\ wpc[w] = "complete_cs"
  /\ active' = LedgerLeave(active, wurl[w].url)
  /\ completed' = RecordCompleted(completed, wtitle[w])
  /\ Release(w)
  /\ wpc' = SetW(wpc, w, "task_done")
  /\ wurl' = SetW(wurl, w, Unset)
  /\ wtitle' = SetW(wtitle, w, "")
  /\ UNCHANGED <<queueVars, failed, stop_display, werr, whook, rendererVars,
                 mainVars, dequeued, setCount,
                 dropped, hist>>

\* variant: the failure escapes the loop and the worker thread ends
WFailCrash(w) ==
  /\ Running
  /\ wpc[w] = "fail_cs"
  /\ failed' = RecordFailed(failed, active, wurl[w].url, werr[w])
  /\ active' = LedgerLeave(active, wurl[w].url)
  /\ Release(w)
  /\ wpc' = SetW(wpc, w, "exited")
  /\ wurl' = SetW(wurl, w, Unset)
  /\ wtitle' = SetW(wtitle, w, "")
  /\ werr' = SetW(werr, w, "")
  /\ UNCHANGED <<queueVars, completed, stop_display, whook, rendererVars,
                 mainVars, dequeued, setCount, dropped, hist>>

\* if url in active_downloads: title = ...; del ...; failed_downloads.append(...)
WFail(w) ==
  /\ Running
  /\ wpc[w] = "fail_cs"
  /\ failed' = RecordFailed(failed, active, wurl[w].url, werr[w])
  /\ active' = LedgerLeave(active, wurl[w].url)
  /\ Release(w)
  /\ wpc' = SetW(wpc, w, "task_done")
  /\ wurl' = SetW(wurl, w, Unset)
  /\ wtitle' = SetW(wtitle, w, "")
  /\ werr' = SetW(werr, w, "")
  /\ UNCHANGED <<queueVars, completed, stop_display, whook, rendererVars,
                 mainVars, dequeued, setCount,
                 dropped, hist>>

\* variant: task_done is signalled twice for one item
WTaskDoneTwice(w) ==
  /\ Running
  /\ wpc[w] = "task_done"
  /\ unfinished' = unfinished - 2
  /\ wpc' = SetW(wpc, w, "get")
  /\ UNCHANGED <<queue, ledgerVars, queue_lock, stop_display, wurl, wtitle,
                 werr, whook, rendererVars, mainVars, dequeued, setCount,
                 dropped, hist>>

\* finally: download_queue.task_done(); back to `while True`
WTaskDone(w) ==
  /\ Running
  /\ wpc[w] = "task_done"
  /\ unfinished' = unfinished - 1
  /\ wpc' = SetW(wpc, w, "get")
  /\ UNCHANGED <<queue, ledgerVars, queue_lock, stop_display, wurl, wtitle,
                 werr, whook, rendererVars, mainVars, dequeued, setCount,
                 dropped, hist>>

Worker(w) ==
  \/ WGet(w) \/ WEnterAcq(w) \/ WEnter(w) \/ WProbeOk(w) \/ WProbeErr(w)
  \/ WTitle(w) \/ WHookAcq(w) \/ WHook(w) \/ WDownloadOk(w)
  \/ WDownloadErr(w) \/ WComplete(w) \/ WFail(w) \/ WTaskDone(w)

(* ------------------------- create_status_table ------------------------- *)
\* with queue_lock: for url, info in active_downloads.items(): ...
RSnapAcq ==
  /\ Running
  /\ rpc = "snap_acq"
  /\ Acquire(RendererId)
  /\ snap' = [snap EXCEPT !.stage = 1, !.active = active]
  /\ rpc' = "snap_qsize"
  /\ UNCHANGED <<queueVars, ledgerVars, stop_display, workerVars, rfirst,
                 inst, mainVars, dequeued, setCount,
                 dropped, hist>>

\* queue_size = download_queue.qsize()
RSnapQsize ==
  /\ Running
  /\ rpc = "snap_qsize"
  /\ snap' = [snap EXCEPT !.stage = 2, !.q = Len(queue)]
  /\ inst' = [active |-> active, q |-> Len(queue), completed |-> completed,
              failed |-> failed]
  /\ rpc' = "snap_completed"
  /\ UNCHANGED <<queueVars, ledgerVars, queue_lock, stop_display, workerVars,
                 rfirst, mainVars, dequeued, setCount,
                 dropped, hist>>

\* for item in completed_downloads[-3:]: ...
RSnapCompleted ==
  /\ Running
  /\ rpc = "snap_completed"
  /\ snap' = [snap EXCEPT !.stage = 3, !.completed = LastN(completed, TailLen)]
  /\ rpc' = "snap_failed"
  /\ UNCHANGED <<queueVars, ledgerVars, queue_lock, stop_display, workerVars,
                 rfirst, inst, mainVars, dequeued, setCount,
                 dropped, hist>>

\* for item in failed_downloads[-3:]: ...; the `with` block ends
RSnapFailed ==
  /\ Running
  /\ rpc = "snap_failed"
  /\ snap' = [snap EXCEPT !.stage = 4, !.failed = LastN(failed, TailLen)]
  /\ Release(RendererId)
  /\ rpc' = "snap_ret"
  /\ UNCHANGED <<queueVars, ledgerVars, stop_display, workerVars, rfirst,
                 inst, mainVars, dequeued, setCount,
                 dropped, hist>>

(* ---------------------------- status_display --------------------------- *)
\* return table.  The first table goes to Live(...) and the loop condition
\* `not stop_display.is_set()` is read; a later one goes to live.update(...)
\* and stop_display.wait(0.5) starts
RSnapRet ==
  /\ Running
  /\ rpc = "snap_ret"
  /\ rpc' = IF rfirst THEN (IF stop_display THEN "done" ELSE "snap_acq")
            ELSE "wait"
  /\ rfirst' = FALSE
  /\ snap' = NoSnap
  /\ inst' = Unset
  /\ UNCHANGED <<queueVars, ledgerVars, queue_lock, stop_display, workerVars,
                 mainVars, dequeued, setCount,
                 dropped, hist>>

\* stop_display.wait(0.5) returns, on set() or when the period is over, and
\* the loop condition is read
RWait ==
  /\ Running
  /\ rpc = "wait"
  /\ rpc' = IF stop_display THEN "done" ELSE "snap_acq"
  /\ UNCHANGED <<queueVars, ledgerVars, queue_lock, stop_display, workerVars,
                 rfirst, snap, inst, mainVars, dequeued, setCount,
                 dropped, hist>>

Renderer ==
  \/ RSnapAcq \/ RSnapQsize \/ RSnapCompleted \/ RSnapFailed \/ RSnapRet
  \/ RWait

(* --------------------------------- main -------------------------------- *)
\* the positions inside `try:` (lines 174-217)
TryStates == {"idle", "join", "set", "put_stop", "join_workers", "summary"}

IsQuit(inp) == StrLower(inp) = "q"
IsStatus(inp) == StrLower(inp) = "s"
IsBlank(inp) == Strip(inp) = ""
\* variant: the domain test is missing
IsForeignNever(inp) == FALSE

IsForeign(inp) == ~Contains(inp, "youtube.com") /\ ~Contains(inp, "youtu.be")

\* the branch of the `while True:` body an input takes (lines 185-216)
InputKind ==
  [inp \in Inputs |->
     IF IsQuit(inp) THEN "quit"
     ELSE IF IsStatus(inp) THEN "status"
     ELSE IF IsBlank(inp) THEN "blank"
     ELSE IF IsForeign(inp) THEN "foreign"
     ELSE "url"]

\* one turn of `while True:` when Prompt.ask returns inp (lines 182-217)
DPromptWith(inp) ==
  /\ dpc = "idle"
  /\ CASE InputKind[inp] = "quit" ->
            /\ dpc' = "join"
            /\ UNCHANGED <<queueVars, submitted, hist>>
       [] InputKind[inp] \in {"status", "blank", "foreign"} ->
            UNCHANGED <<queueVars, submitted, dpc, hist>>
       [] InputKind[inp] = "url" ->
            /\ submitted < MaxSubmit
            /\ queue' = QueueAfterPut(queue, Work(submitted + 1, inp))
            /\ unfinished' = unfinished + 1
            /\ submitted' = submitted + 1
            /\ hist' = [hist EXCEPT ![submitted + 1] =
                                     [url |-> inp, result |-> "pending"]]
            /\ dpc' = dpc
  /\ UNCHANGED <<ledgerVars, queue_lock, stop_display, workerVars,
                 rendererVars, dk, summary, drained, interrupted, dequeued,
                 setCount, dropped>>

\* url = Prompt.ask(...): the operator types any of Inputs
DPrompt == \E inp \in Inputs : DPromptWith(inp)

\* download_queue.join()
DJoin ==
  /\ dpc = "join"
  /\ JoinReturns(unfinished)
  /\ dpc' = "set"
  /\ drained' = TRUE
  /\ UNCHANGED <<queueVars, ledgerVars, queue_lock, stop_display, workerVars,
                 rendererVars, dk, summary, submitted, interrupted, dequeued,
                 setCount,
                 dropped, hist>>

\* stop_display.set() (line 188)
DSet ==
  /\ dpc = "set"
  /\ stop_display' = TRUE
  /\ setCount' = setCount + 1
  /\ dpc' = "put_stop"
  /\ dk' = 0
  /\ UNCHANGED <<queueVars, ledgerVars, queue_lock, workerVars, rendererVars,
                 summary, submitted, drained, interrupted, dequeued,
                 dropped, hist>>

\* for _ in workers: download_queue.put(None)
DPutStop ==
  /\ dpc = "put_stop"
  /\ queue' = QueueAfterPut(queue, None)
  /\ unfinished' = unfinished + 1
  /\ IF dk + 1 = num_workers
     THEN dpc' = "join_workers" /\ dk' = 0
     ELSE dpc' = dpc /\ dk' = dk + 1
  /\ UNCHANGED <<ledgerVars, queue_lock, stop_display, workerVars,
                 rendererVars, summary, submitted, drained, interrupted,
                 dequeued, setCount,
                 dropped, hist>>

\* variant: the loop over workers goes on without waiting for the thread
DJoinWorkerNoWait ==
  /\ dpc = "join_workers"
  /\ IF dk + 1 = num_workers
     THEN dpc' = "summary" /\ dk' = 0
     ELSE dpc' = dpc /\ dk' = dk + 1
  /\ UNCHANGED <<queueVars, ledgerVars, queue_lock, stop_display, workerVars,
                 rendererVars, summary, submitted, drained, interrupted,
                 dequeued, setCount,
                 dropped, hist>>

\* for t in workers: t.join()
DJoinWorker ==
  /\ dpc = "join_workers"
  /\ wpc[dk + 1] = "exited"
  /\ IF dk + 1 = num_workers
     THEN dpc' = "summary" /\ dk' = 0
     ELSE dpc' = dpc /\ dk' = dk + 1
  /\ UNCHANGED <<queueVars, ledgerVars, queue_lock, stop_display, workerVars,
                 rendererVars, summary, submitted, drained, interrupted,
                 dequeued, setCount,
                 dropped, hist>>

\* the Completed / Failed lines (197-198), then break and return
DSummary ==
  /\ dpc = "summary"
  /\ summary' = [completed |-> Len(completed), failed |-> Len(failed)]
  /\ dpc' = "terminal"
  /\ UNCHANGED <<queueVars, ledgerVars, queue_lock, stop_display, workerVars,
                 rendererVars, dk, submitted, drained, interrupted, dequeued,
                 setCount,
                 dropped, hist>>

\* variant: the handler waits for the queue to drain before it returns
InterruptDrains(pc) == "join"

\* where the KeyboardInterrupt handler of main leaves the Dispatcher
InterruptTarget(pc) == "terminal"

\* variant: the handler returns without stop_display.set()
DInterruptNoSet ==
  /\ dpc \in TryStates
  /\ interrupted' = TRUE
  /\ dpc' = InterruptTarget(dpc)
  /\ UNCHANGED <<queueVars, ledgerVars, queue_lock, stop_display, workerVars,
                 rendererVars, dk, summary, submitted, drained, dequeued,
                 setCount, dropped, hist>>

\* KeyboardInterrupt inside `try:`; except: stop_display.set(); print; return
DInterrupt ==
  /\ dpc \in TryStates
  /\ stop_display' = TRUE
  /\ setCount' = setCount + 1
  /\ interrupted' = TRUE
  /\ dpc' = InterruptTarget(dpc)
  /\ UNCHANGED <<queueVars, ledgerVars, queue_lock, workerVars, rendererVars,
                 dk, summary, submitted, drained, dequeued,
                 dropped, hist>>

Main ==
  \/ DPrompt \/ DJoin \/ DSet \/ DPutStop \/ DJoinWorker \/ DSummary
  \/ DInterrupt

Next == (\E w \in Workers : Worker(w)) \/ Renderer \/ Main

Spec == Init /\ [][Next]_vars

(* ------------------------------ scheduling ----------------------------- *)
\* the steps of download_worker that wait for queue_lock: `with queue_lock:`
\* on entry (line 88), and the ones taken when extract_info or download
\* returns or raises (lines 121, 129, 136)
WorkerLocks(w) ==
  \/ WEnterAcq(w) \/ WProbeOk(w) \/ WProbeErr(w) \/ WDownloadOk(w)
  \/ WDownloadErr(w)

\* the steps of download_worker that wait for nothing another thread holds
WorkerRuns(w) ==
  \/ WGet(w) \/ WEnter(w) \/ WTitle(w) \/ WHook(w) \/ WComplete(w)
  \/ WFail(w) \/ WTaskDone(w)

\* the statements of the quit branch (lines 185-199)
QuitPath == DJoin \/ DSet \/ DPutStop \/ DJoinWorker \/ DSummary

\* a thread that can run does run; a worker waiting for queue_lock gets it
\* when it is free again and again; every extract_info and download call
\* returns, however many progress_hook events come first.  The operator may
\* stay silent and need never interrupt: DPrompt and DInterrupt carry no
\* obligation, nor does the arrival of one more progress event (WHookAcq)
Fairness ==
  /\ \A w \in Workers : WF_vars(WorkerRuns(w)) /\ SF_vars(WorkerLocks(w))
  /\ WF_vars(Renderer)
  /\ WF_vars(QuitPath)

\* the operator of a graceful run: any input at each prompt, every URL
\* typed being URL1 (a second submission is a repeat), and no Ctrl-C
DPromptQuit == \E inp \in Inputs \ {URL2} : DPromptWith(inp)

NextQuit == (\E w \in Workers : Worker(w)) \/ Renderer \/ DPromptQuit \/ QuitPath

SpecFair == Init /\ [][NextQuit]_vars /\ Fairness

(* ============================== properties ============================= *)
\* worker positions that hold a dequeued URL entry whose task_done is due
InFlightLocs ==
  {"enter", "enter_cs", "probe", "title_cs", "download", "hook_cs",
   "complete_cs", "fail_cs", "task_done"}
\* ... whose outcome is not yet recorded as completed or failed
OwnedLocs == InFlightLocs \ {"task_done"}
\* ... and whose enter step (line 89) has run
EnteredLocs == OwnedLocs \ {"enter", "enter_cs"}
\* worker positions inside a `with queue_lock:` body
WorkerCS == {"enter_cs", "title_cs", "hook_cs", "complete_cs", "fail_cs"}
\* renderer positions inside the `with queue_lock:` body of create_status_table
RendererCS == {"snap_qsize", "snap_completed", "snap_failed"}

UrlsQueued == {i \in 1..Len(queue) : IsWork(queue[i])}
SentinelQueued == \E i \in 1..Len(queue) : queue[i] = None
InFlight == {w \in Workers : wpc[w] \in InFlightLocs}
OwnedUrls == {wurl[w].url : w \in {v \in Workers : wpc[v] \in OwnedLocs}}
EnteredUrls == {wurl[w].url : w \in {v \in Workers : wpc[v] \in EnteredLocs}}
DequeuedCount == Cardinality({i \in DOMAIN dequeued : dequeued[i] > 0})

\* C1: while a stop sentinel is queued, or once a worker has left its loop,
\* no URL entry is queued or in flight (every submitted entry has had its
\* ledger update and its task_done).
C1_DrainThenSentinel ==
  (SentinelQueued \/ \E w \in Workers : wpc[w] = "exited")
    => (UrlsQueued = {} /\ InFlight = {} /\ DequeuedCount = submitted)

C1_Witness ==
  /\ SentinelQueued
  /\ \E w \in Workers : wpc[w] = "exited"
  /\ submitted = MaxSubmit

\* C2 (as claimed): after download_queue.join() has returned on the quit path,
\* active + queued URLs + completed + failed equals the number of submitted
\* URL entries.
C2_AllAccountedAfterDrain ==
  drained =>
    Cardinality(DOMAIN active) + Cardinality(UrlsQueued) + Len(completed)
      + Len(failed) = submitted

\* C3 (as claimed): every run of the failure block (lines 134-140) appends
\* exactly one record to failed_downloads.
C3_EveryFailureRecorded ==
  [][\A w \in Workers :
       (wpc[w] = "fail_cs" /\ wpc'[w] # "fail_cs")
         => Len(failed') = Len(failed) + 1]_vars

C5_NoLossNoDuplication ==
  /\ \A i \in DOMAIN dequeued : dequeued[i] <= 1
  /\ \A i \in DOMAIN dequeued : dequeued[i] > 0 => i <= submitted
  /\ DequeuedCount + Cardinality(UrlsQueued) = submitted

C5_Witness ==
  /\ submitted = MaxSubmit
  /\ UrlsQueued = {}
  /\ DequeuedCount = MaxSubmit
  /\ dpc = "idle"

\* C6: a worker leaves its loop only by dequeuing the stop sentinel; after
\* the failure block it goes to task_done and from there back to the
\* blocking get.
C6_FailureNeverTerminates ==
  [][\A w \in Workers :
       /\ (wpc[w] # "exited" /\ wpc'[w] = "exited")
            => (wpc[w] = "get" /\ queue # <<>> /\ Head(queue) = None)
       /\ (wpc[w] = "fail_cs" /\ wpc'[w] # "fail_cs")
            => wpc'[w] = "task_done"
       /\ (wpc[w] = "task_done" /\ wpc'[w] # "task_done")
            => wpc'[w] = "get"]_vars

C6_Witness ==
  /\ Len(failed) = MaxSubmit
  /\ \A w \in Workers : wpc[w] = "get"
  /\ ~SentinelQueued

\* C7: when create_status_table returns, what it read equals the real active
\* map, queue depth and list tails at the instant it read qsize; and the
\* ledger does not change between its reads.
C7_SnapshotConsistent ==
  /\ rpc = "snap_qsize" => snap.active = active
  /\ rpc \in {"snap_completed", "snap_failed"} =>
       /\ inst.active = active
       /\ inst.completed = completed
       /\ inst.failed = failed
  /\ rpc = "snap_ret" =>
       /\ snap.active = inst.active
       /\ snap.q = inst.q
       /\ snap.completed = LastN(inst.completed, TailLen)
       /\ snap.failed = LastN(inst.failed, TailLen)

C7_Witness ==
  /\ rpc = "snap_ret"
  /\ DOMAIN snap.active # {}
  /\ snap.completed # <<>>
  /\ snap.q # Len(queue)

\* C8: a worker or the renderer is inside a ledger access only while it holds
\* queue_lock, at most one of them at a time; main's unlocked read of the
\* list lengths happens only after every worker has left its loop.
ThreadsInCS ==
  {w \in Workers : wpc[w] \in WorkerCS}
    \cup (IF rpc \in RendererCS THEN {RendererId} ELSE {})

C8_MutualExclusion ==
  /\ ThreadsInCS \subseteq {queue_lock}
  /\ Cardinality(ThreadsInCS) <= 1
  /\ dpc = "summary" => \A w \in Workers : wpc[w] = "exited"

C8_Witness ==
  /\ rpc \in RendererCS
  /\ \E w \in Workers : wpc[w] = "enter"
  /\ \E w \in Workers : wpc[w] = "download"

\* C9: a title or progress update whose URL is not in active_downloads
\* returns normally and changes neither active_downloads nor the two lists.
C9_LateUpdateDropped ==
  [][\A w \in Workers :
       (/\ wpc[w] \in {"title_cs", "hook_cs"}
        /\ wpc'[w] # wpc[w]
        /\ wurl[w].url \notin DOMAIN active)
         => (wpc'[w] = "download" /\ UNCHANGED <<active, completed, failed>>)]_vars

C9_Witness ==
  /\ dropped
  /\ \E w \in Workers : wpc[w] = "download" /\ wurl[w].url \notin DOMAIN active

\* C10: in every position inside `try:` the interrupt can be taken, and taking
\* it sets stop_display and ends main at once, leaving the queue, the
\* outstanding-task count and the workers as they are.
C10_InterruptDirect ==
  /\ [](dpc \in TryStates => ENABLED DInterrupt)
  /\ [][(interrupted' /\ ~interrupted)
          => /\ dpc' = "terminal"
             /\ stop_display'
             /\ UNCHANGED <<queue, unfinished, wpc>>]_vars

C10_Witness ==
  /\ interrupted
  /\ dpc = "terminal"
  /\ unfinished > 0
  /\ \E w \in Workers : wpc[w] \in {"probe", "download"}

(* ------------------------- properties, continued ----------------------- *)
\* entries whose download returned, and entries whose probe or download raised
OkIds == {i \in 1..submitted : hist[i].result = "ok"}
ErrIds == {i \in 1..submitted : hist[i].result \notin {"pending", "ok"}}
DistinctUrls ==
  \A i, j \in 1..submitted : i # j => hist[i].url # hist[j].url
\* the first ErrLen characters of a message
Truncated(e) == IF Len(e) > ErrLen THEN SubSeq(e, 1, ErrLen) ELSE e
EndsWith(s, suffix) ==
  /\ Len(s) >= Len(suffix)
  /\ SubSeq(s, Len(s) - Len(suffix) + 1, Len(s)) = suffix

\* C11: when pairwise distinct URLs were submitted, the summary printed on
\* quit gives Completed = number of downloads that returned and Failed =
\* number of probes or downloads that raised, and the records of
\* failed_downloads match the failed entries one to one, each ending in " - "
\* and the first 50 characters of that entry's message.
C11_SummaryCounts ==
  (summary # Unset /\ DistinctUrls) =>
    /\ summary.completed = Cardinality(OkIds)
    /\ summary.failed = Cardinality(ErrIds)
    /\ Len(failed) = Cardinality(ErrIds)
    /\ \E f \in [1..Len(failed) -> ErrIds] :
         /\ \A k, l \in 1..Len(failed) : k # l => f[k] # f[l]
         /\ \A k \in 1..Len(failed) :
              EndsWith(failed[k], " - " \o Truncated(hist[f[k]].result))

C11_Witness ==
  /\ summary # Unset
  /\ DistinctUrls
  /\ submitted = MaxSubmit
  /\ OkIds # {}
  /\ \E i \in ErrIds : Len(hist[i].result) > ErrLen

\* the inputs C13 names: empty, whitespace-only, no platform domain, 's'
RejectedInputs == {"", "  ", "hello", "s", "S"}
\* what an accepted URL does: one more queue entry and outstanding task
AddsOneEntry(u) ==
  /\ queue' = Append(queue, Work(submitted + 1, u))
  /\ unfinished' = unfinished + 1
  /\ UNCHANGED <<active, completed, failed, dpc>>

\* C13: in every Idle state, a turn of the prompt loop on a rejected input
\* has the unchanged state as its only outcome, and a turn on an accepted
\* URL has as its only outcome one more queue entry and outstanding task,
\* the ledger unchanged and the Dispatcher Idle again; no entry of the queue
\* holds anything but an accepted URL or the sentinel.
C13_RejectedChangesNothing ==
  /\ \A i \in 1..Len(queue) : IsWork(queue[i]) => queue[i].url \in URLs
  /\ dpc = "idle" =>
       \A inp \in RejectedInputs :
         /\ ENABLED (DPromptWith(inp) /\ UNCHANGED vars)
         /\ ~ENABLED (DPromptWith(inp) /\ vars' # vars)
  /\ (dpc = "idle" /\ submitted < MaxSubmit) =>
       \A u \in URLs :
         /\ ENABLED (DPromptWith(u) /\ AddsOneEntry(u))
         /\ ~ENABLED (DPromptWith(u) /\ ~AddsOneEntry(u))

C13_Witness ==
  /\ dpc = "idle"
  /\ submitted = 1
  /\ Len(queue) = 1
  /\ ENABLED DPromptWith("hello")
  /\ ENABLED DPromptWith(URL2)

SentinelsQueued == {i \in 1..Len(queue) : queue[i] = None}
ExitedWorkers == {w \in Workers : wpc[w] = "exited"}

\* C14: the outstanding-task count is never negative and always equals the
\* URL entries queued or in flight plus the sentinels put; a worker reaches
\* task_done only from the end of its completion or failure block and
\* signals it once; so join can return only with no URL queued or in flight.
C14_TaskDoneAccounting ==
  /\ [](/\ unfinished >= 0
        /\ unfinished = Cardinality(UrlsQueued) + Cardinality(InFlight)
                          + Cardinality(SentinelsQueued)
                          + Cardinality(ExitedWorkers)
        /\ (dpc = "join" /\ ENABLED DJoin)
             => (UrlsQueued = {} /\ InFlight = {}))
  /\ [][\A w \in Workers :
          /\ (wpc'[w] = "task_done" /\ wpc[w] # "task_done")
               => wpc[w] \in {"complete_cs", "fail_cs"}
          /\ (wpc[w] = "task_done" /\ wpc'[w] # "task_done")
               => (unfinished' = unfinished - 1 /\ UNCHANGED ledgerVars)]_vars

C14_Witness ==
  /\ dpc = "join"
  /\ unfinished = 0
  /\ submitted = MaxSubmit
  /\ completed # <<>>
  /\ failed # <<>>

\* C15: queue_lock is held only by a worker inside one of its `with` bodies
\* or by the renderer inside create_status_table, never by a thread at a
\* blocking call (get, extract_info, download, Event.wait, the wait for the
\* lock itself) and never by main; and the holder can always take its step.
C15_NoLockAcrossBlocking ==
  /\ queue_lock \in Workers => wpc[queue_lock] \in WorkerCS
  /\ queue_lock = RendererId => rpc \in RendererCS
  /\ queue_lock \in Workers \cup {RendererId, Unlocked}
  /\ (Running /\ queue_lock \in Workers) => ENABLED Worker(queue_lock)
  /\ (Running /\ queue_lock = RendererId) => ENABLED Renderer

C15_Witness ==
  /\ queue_lock = RendererId
  /\ \E w \in Workers : wpc[w] = "download"
  /\ \E w \in Workers : wpc[w] = "get"
  /\ dpc = "join"

\* C16 (as claimed): the record appended for an item whose probe failed is
\* the first 50 characters of its URL, then " - ", then the truncated message.
C16_ProbeFailureLabel ==
  [][\A w \in Workers :
       (/\ wpc[w] = "fail_cs"
        /\ wpc'[w] # "fail_cs"
        /\ wtitle[w] = ""
        /\ Len(failed') = Len(failed) + 1)
         => failed'[Len(failed')]
              = Truncated(wurl[w].url) \o " - " \o werr[w]]_vars

\* C18 (as claimed): stop_display.set() is performed exactly once over a run
\* that ends, and the flag is never cleared.
C18_SetExactlyOnce ==
  /\ setCount <= 1
  /\ dpc = "terminal" => setCount = 1

\* C18 (amended): once set the flag is never cleared and it is set when main
\* returns; set() is called once on the quit path and once by the interrupt
\* handler, so at most twice, and without an interrupt at most once.
C18_SetNeverCleared ==
  /\ [](/\ stop_display <=> setCount >= 1
        /\ setCount <= 2
        /\ ~interrupted => setCount <= 1
        /\ dpc = "terminal" => stop_display)
  /\ [][stop_display => stop_display']_vars

C18_Witness ==
  /\ setCount = 2
  /\ stop_display
  /\ dpc = "terminal"

\* a thread in an intended wait: a worker in get on an empty queue or gone,
\* the renderer in its timed wait or gone, main waiting for input, for the
\* drain or for a worker to end, or returned
WorkerWaits(w) == wpc[w] = "exited" \/ (wpc[w] = "get" /\ queue = <<>>)
RendererWaits == rpc \in {"wait", "done"}
MainWaits ==
  \/ dpc \in {"idle", "terminal"}
  \/ dpc = "join" /\ unfinished > 0
  \/ dpc = "join_workers" /\ wpc[dk + 1] # "exited"
\* a step of a thread other than operator input and the interrupt
ThreadStep ==
  \/ \E w \in Workers : Worker(w)
  \/ Renderer
  \/ DJoin \/ DSet \/ DPutStop \/ DJoinWorker \/ DSummary

\* C19: while the process runs, whenever some thread is not in an intended
\* wait some thread can take a step; a step that takes queue_lock is not a
\* queue operation, and the only queue operation made with queue_lock held is
\* the renderer's qsize, which leaves the queue as it is.
C19_NoDeadlock ==
  /\ []((/\ Running
         /\ \/ \E w \in Workers : ~WorkerWaits(w)
            \/ ~RendererWaits
            \/ ~MainWaits)
          => ENABLED ThreadStep)
  /\ [][/\ (queue_lock' # Unlocked /\ queue_lock' # queue_lock)
             => UNCHANGED queueVars
        /\ (queue' # queue \/ unfinished' # unfinished)
             => (queue_lock' = queue_lock
                 /\ (queue_lock \in Workers => wpc'[queue_lock] = wpc[queue_lock])
                 /\ (queue_lock = RendererId => rpc' = rpc))]_vars

C19_Witness ==
  /\ queue_lock = RendererId
  /\ rpc = "snap_completed"
  /\ Cardinality({w \in Workers : wpc[w] = "enter"}) = 2
  /\ dpc = "join"

LedgerSize == Cardinality(DOMAIN active) + Len(completed) + Len(failed)

\* C20 (as claimed): a completion or failure block removes the entry and
\* appends the outcome in one step, leaving len(active) + len(completed) +
\* len(failed) as it was.
C20_FinishKeepsLedgerSize ==
  [][\A w \in Workers :
       (wpc[w] \in {"complete_cs", "fail_cs"} /\ wpc'[w] # wpc[w])
         => LedgerSize' = LedgerSize]_vars

(* --------------------------------- C12 --------------------------------- *)
\* C12: after quit, with every FetchClient call returning and fair
\* scheduling (SpecFair), main reaches the end: unless the operator
\* interrupts, all num_workers workers have terminated and the summary is
\* printed; with no URL submitted download_queue.join() can return at once
\* and the summary is Completed 0, Failed 0
C12_QuitTerminates ==
  /\ (dpc = "join") ~> (/\ dpc = "terminal"
                        /\ (interrupted \/ (/\ ExitedWorkers = Workers
                                            /\ summary # Unset)))
  /\ []((dpc = "terminal" /\ ~interrupted)
          => (ExitedWorkers = Workers /\ summary # Unset))
  /\ []((dpc = "join" /\ submitted = 0) => ENABLED DJoin)
  /\ []((submitted = 0 /\ summary # Unset)
          => summary = [completed |-> 0, failed |-> 0])

\* quit after two submissions has run to the end without an interrupt
C12_Witness ==
  /\ dpc = "terminal"
  /\ ~interrupted
  /\ submitted = MaxSubmit
  /\ ExitedWorkers = Workers
  /\ summary # Unset

(* --------------------------------- C17 --------------------------------- *)
\* C17: once stop_display is set the status_display loop is left: when main
\* has returned, and with it the process has ended, the renderer has read
\* the loop condition as false and is done
C17_RendererExits ==
  (dpc = "terminal" /\ stop_display) => rpc = "done"

====
